---- MODULE Spec2Model ----
(***************************************************************************)
(* Model of python/tink/aead/_aead_key_templates.py: the four key template *)
(* constructors, the nine module-level catalog constants, and the callers  *)
(* that import the module, call constructors and read the constants.       *)
(* Key templates are heap objects: a module-level name and a caller's      *)
(* variable may refer to the same object.                                  *)
(***************************************************************************)
EXTENDS Integers, Sequences, FiniteSets, TLC

VARIABLES pc, names, heap, cpc, ref, observed, produced, remembered, between, nmod

vars == <<pc, names, heap, cpc, ref, observed, produced, remembered, between, nmod>>

(* ------------------------------ bounds --------------------------------- *)
NumSizes == 2
MaxMods == 1

SizeList == <<0, 300, 16, 32, 1>>
Sizes == {SizeList[i] : i \in 1..NumSizes}
ClientSizes == {SizeList[3]}

(* --------------------------- type identifiers -------------------------- *)
_AES_EAX_KEY_TYPE_URL == "type.googleapis.com/google.crypto.tink.AesEaxKey"
_AES_GCM_KEY_TYPE_URL == "type.googleapis.com/google.crypto.tink.AesGcmKey"
_AES_GCM_SIV_KEY_TYPE_URL == "type.googleapis.com/google.crypto.tink.AesGcmSivKey"
_AES_CTR_HMAC_AEAD_KEY_TYPE_URL == "type.googleapis.com/google.crypto.tink.AesCtrHmacAeadKey"
_XCHACHA20_POLY1305_KEY_TYPE_URL == "type.googleapis.com/google.crypto.tink.XChaCha20Poly1305Key"

(* ------------------- tink.proto / common.proto values ------------------ *)
TINK == "TINK"
OutputPrefixType == {"UNKNOWN_PREFIX", "TINK", "LEGACY", "RAW", "CRUNCHY"}

(* tink_pb2.KeyTemplate(): every field at its default *)
KeyTemplate == [type_url |-> "", value |-> <<>>, output_prefix_type |-> "UNKNOWN_PREFIX"]

UNKNOWN_HASH == 0
SHA1 == 1
SHA384 == 2
SHA256 == 3
SHA512 == 4
HashType == {UNKNOWN_HASH, SHA1, SHA384, SHA256, SHA512}
HashArgs == {SHA256, SHA512, 99}
PairHashes == {SHA256, SHA512}

(* ------------------------- binary wire encoding ------------------------ *)
RECURSIVE Varint(_)
Varint(n) ==
  IF n < 128 THEN <<n>> ELSE <<(n % 128) + 128>> \o Varint(n \div 128)

Tag(num, wt) == Varint(num * 8 + wt)

(* scalar field: a field holding the default value 0 is not written *)
Uint32Field(num, v) == IF v = 0 THEN <<>> ELSE Tag(num, 0) \o Varint(v)

(* nested message field: length-delimited, written once the sub-message  *)
(* has been touched, also when its body is empty                         *)
MessageField(num, body) == Tag(num, 2) \o Varint(Len(body)) \o body

AesEaxKeyFormat_SerializeToString(key_format) ==
  MessageField(1, Uint32Field(1, key_format.params.iv_size))
    \o Uint32Field(2, key_format.key_size)

AesGcmKeyFormat_SerializeToString(key_format) ==
  Uint32Field(2, key_format.key_size)

AesGcmSivKeyFormat_SerializeToString(key_format) ==
  Uint32Field(2, key_format.key_size)

AesCtrKeyFormat_SerializeToString(f) ==
  MessageField(1, Uint32Field(1, f.params.iv_size)) \o Uint32Field(2, f.key_size)

HmacKeyFormat_SerializeToString(f) ==
  MessageField(1, Uint32Field(1, f.params.hash) \o Uint32Field(2, f.params.tag_size))
    \o Uint32Field(2, f.key_size)

AesCtrHmacAeadKeyFormat_SerializeToString(key_format) ==
  MessageField(1, AesCtrKeyFormat_SerializeToString(key_format.aes_ctr_key_format))
    \o MessageField(2, HmacKeyFormat_SerializeToString(key_format.hmac_key_format))

(* the serialization layer cannot represent a hash outside the enum *)
HashRepresentable(hash_type) == hash_type \in HashType

(* ------------------------------ decoding ------------------------------- *)
RECURSIVE ParseVarint(_, _)
ParseVarint(b, i) ==
  IF b[i] < 128
    THEN [val |-> b[i], next |-> i + 1]
    ELSE LET r == ParseVarint(b, i + 1)
         IN  [val |-> (b[i] - 128) + 128 * r.val, next |-> r.next]

RECURSIVE ParseFields(_, _)
ParseFields(b, i) ==
  IF i > Len(b) THEN <<>>
  ELSE LET tag == ParseVarint(b, i)
           num == tag.val \div 8
           wt  == tag.val % 8
           v   == ParseVarint(b, tag.next)
       IN  IF wt = 0
             THEN <<[num |-> num, wt |-> wt, val |-> v.val, bytes |-> <<>>]>>
                    \o ParseFields(b, v.next)
             ELSE <<[num |-> num, wt |-> wt, val |-> 0,
                     bytes |-> SubSeq(b, v.next, v.next + v.val - 1)]>>
                    \o ParseFields(b, v.next + v.val)

RECURSIVE GetUint(_, _)
GetUint(fs, num) ==
  IF fs = <<>> THEN 0
  ELSE LET last == fs[Len(fs)]
       IN  IF last.num = num /\ last.wt = 0 THEN last.val
           ELSE GetUint(SubSeq(fs, 1, Len(fs) - 1), num)

RECURSIVE GetBytes(_, _)
GetBytes(fs, num) ==
  IF fs = <<>> THEN <<>>
  ELSE LET last == fs[Len(fs)]
       IN  IF last.num = num /\ last.wt = 2 THEN last.bytes
           ELSE GetBytes(SubSeq(fs, 1, Len(fs) - 1), num)

(* the size and hash arguments a parameter blob decodes to, in the order *)
(* of the constructor's parameters                                        *)
AesEaxKeyFormat_Parse(b) ==
  LET fs == ParseFields(b, 1)
      ps == ParseFields(GetBytes(fs, 1), 1)
  IN  <<GetUint(fs, 2), GetUint(ps, 1)>>

AesGcmKeyFormat_Parse(b) == <<GetUint(ParseFields(b, 1), 2)>>

AesGcmSivKeyFormat_Parse(b) == <<GetUint(ParseFields(b, 1), 2)>>

AesCtrHmacAeadKeyFormat_Parse(b) ==
  LET fs  == ParseFields(b, 1)
      ctr == ParseFields(GetBytes(fs, 1), 1)
      cps == ParseFields(GetBytes(ctr, 1), 1)
      mac == ParseFields(GetBytes(fs, 2), 1)
      mps == ParseFields(GetBytes(mac, 1), 1)
  IN  <<GetUint(ctr, 2), GetUint(cps, 1), GetUint(mac, 2), GetUint(mps, 2),
        GetUint(mps, 1)>>

(* ----------------------------- constructors ---------------------------- *)
Return(key_template) ==
  [raised |-> "", returned |-> TRUE, template |-> key_template]

Raise(error) ==
  [raised |-> error, returned |-> FALSE, template |-> KeyTemplate]

(* variant of create_aes_eax_key_template: marks the template RAW *)
create_aes_eax_key_template_raw(key_size, iv_size) ==
  LET key_format == [params |-> [iv_size |-> iv_size], key_size |-> key_size]
      t1 == [KeyTemplate EXCEPT !.value = AesEaxKeyFormat_SerializeToString(key_format)]
      t2 == [t1 EXCEPT !.type_url = _AES_EAX_KEY_TYPE_URL]
      t3 == [t2 EXCEPT !.output_prefix_type = "RAW"]
  IN  Return(t3)

(* variant of create_aes_eax_key_template: key_format.key_size = iv_size *)
create_aes_eax_key_template_iv_as_key(key_size, iv_size) ==
  LET key_format == [params |-> [iv_size |-> iv_size], key_size |-> iv_size]
      t1 == [KeyTemplate EXCEPT !.value = AesEaxKeyFormat_SerializeToString(key_format)]
      t2 == [t1 EXCEPT !.type_url = _AES_EAX_KEY_TYPE_URL]
      t3 == [t2 EXCEPT !.output_prefix_type = TINK]
  IN  Return(t3)

create_aes_eax_key_template(key_size, iv_size) ==
  LET key_format == [params |-> [iv_size |-> iv_size], key_size |-> key_size]
      t1 == [KeyTemplate EXCEPT !.value = AesEaxKeyFormat_SerializeToString(key_format)]
      t2 == [t1 EXCEPT !.type_url = _AES_EAX_KEY_TYPE_URL]
      t3 == [t2 EXCEPT !.output_prefix_type = TINK]
  IN  Return(t3)

(* variant of create_aes_gcm_key_template: rejects a size that is not an *)
(* AES key size                                                          *)
create_aes_gcm_key_template_validating(key_size) ==
  IF key_size \notin {16, 32} THEN Raise("ValueError")
  ELSE
  LET key_format == [key_size |-> key_size]
      t1 == [KeyTemplate EXCEPT !.value = AesGcmKeyFormat_SerializeToString(key_format)]
      t2 == [t1 EXCEPT !.type_url = _AES_GCM_KEY_TYPE_URL]
      t3 == [t2 EXCEPT !.output_prefix_type = TINK]
  IN  Return(t3)

(* variant of create_aes_gcm_key_template: hands out the template of the *)
(* preceding AES-GCM call again instead of building a new one            *)
create_aes_gcm_key_template_cached(key_size) ==
  IF produced.fn = "create_aes_gcm_key_template" /\ produced.returned
    THEN Return(produced.template)
  ELSE
  LET key_format == [key_size |-> key_size]
      t1 == [KeyTemplate EXCEPT !.value = AesGcmKeyFormat_SerializeToString(key_format)]
      t2 == [t1 EXCEPT !.type_url = _AES_GCM_KEY_TYPE_URL]
      t3 == [t2 EXCEPT !.output_prefix_type = TINK]
  IN  Return(t3)

create_aes_gcm_key_template(key_size) ==
  LET key_format == [key_size |-> key_size]
      t1 == [KeyTemplate EXCEPT !.value = AesGcmKeyFormat_SerializeToString(key_format)]
      t2 == [t1 EXCEPT !.type_url = _AES_GCM_KEY_TYPE_URL]
      t3 == [t2 EXCEPT !.output_prefix_type = TINK]
  IN  Return(t3)

(* variant of create_aes_gcm_siv_key_template: attaches the AES-GCM url *)
create_aes_gcm_siv_key_template_gcm_url(key_size) ==
  LET key_format == [key_size |-> key_size]
      t1 == [KeyTemplate EXCEPT !.value = AesGcmSivKeyFormat_SerializeToString(key_format)]
      t2 == [t1 EXCEPT !.type_url = _AES_GCM_KEY_TYPE_URL]
      t3 == [t2 EXCEPT !.output_prefix_type = TINK]
  IN  Return(t3)

create_aes_gcm_siv_key_template(key_size) ==
  LET key_format == [key_size |-> key_size]
      t1 == [KeyTemplate EXCEPT !.value = AesGcmSivKeyFormat_SerializeToString(key_format)]
      t2 == [t1 EXCEPT !.type_url = _AES_GCM_SIV_KEY_TYPE_URL]
      t3 == [t2 EXCEPT !.output_prefix_type = TINK]
  IN  Return(t3)

(* variant of create_aes_ctr_hmac_aead_key_template: an unrepresentable *)
(* hash is swallowed and the template built so far is returned          *)
create_aes_ctr_hmac_aead_key_template_swallowing(aes_key_size, iv_size, hmac_key_size, tag_size, hash_type) ==
  LET key_format ==
        [aes_ctr_key_format |-> [params |-> [iv_size |-> iv_size],
                                 key_size |-> aes_key_size],
         hmac_key_format |-> [params |-> [hash |-> hash_type, tag_size |-> tag_size],
                              key_size |-> hmac_key_size]]
      t1 == IF HashRepresentable(hash_type)
              THEN [KeyTemplate EXCEPT
                      !.value = AesCtrHmacAeadKeyFormat_SerializeToString(key_format)]
              ELSE KeyTemplate
      t2 == [t1 EXCEPT !.type_url = _AES_CTR_HMAC_AEAD_KEY_TYPE_URL]
      t3 == [t2 EXCEPT !.output_prefix_type = TINK]
  IN  Return(t3)

create_aes_ctr_hmac_aead_key_template(aes_key_size, iv_size, hmac_key_size, tag_size, hash_type) ==
  IF ~HashRepresentable(hash_type) THEN Raise("EncodingError")
  ELSE
  LET key_format ==
        [aes_ctr_key_format |-> [params |-> [iv_size |-> iv_size],
                                 key_size |-> aes_key_size],
         hmac_key_format |-> [params |-> [hash |-> hash_type, tag_size |-> tag_size],
                              key_size |-> hmac_key_size]]
      t1 == [KeyTemplate EXCEPT
               !.value = AesCtrHmacAeadKeyFormat_SerializeToString(key_format)]
      t2 == [t1 EXCEPT !.type_url = _AES_CTR_HMAC_AEAD_KEY_TYPE_URL]
      t3 == [t2 EXCEPT !.output_prefix_type = TINK]
  IN  Return(t3)

(* ------------------------- module-level catalog ------------------------ *)
CatalogNames ==
  <<"AES128_EAX", "AES256_EAX", "AES128_GCM", "AES256_GCM", "AES128_GCM_SIV",
    "AES256_GCM_SIV", "AES128_CTR_HMAC_SHA256", "AES256_CTR_HMAC_SHA256",
    "XCHACHA20_POLY1305">>

Names == {CatalogNames[i] : i \in 1..Len(CatalogNames)}

(* variant of CatalogInit: AES256_GCM is built with key_size=16 *)
CatalogInit_gcm256_as_128(n) ==
  CASE n = "AES128_EAX" -> create_aes_eax_key_template(16, 16)
    [] n = "AES256_EAX" -> create_aes_eax_key_template(32, 16)
    [] n = "AES128_GCM" -> create_aes_gcm_key_template(16)
    [] n = "AES256_GCM" -> create_aes_gcm_key_template(16)
    [] n = "AES128_GCM_SIV" -> create_aes_gcm_siv_key_template(16)
    [] n = "AES256_GCM_SIV" -> create_aes_gcm_siv_key_template(32)
    [] n = "AES128_CTR_HMAC_SHA256" ->
         create_aes_ctr_hmac_aead_key_template(16, 16, 32, 16, SHA256)
    [] n = "AES256_CTR_HMAC_SHA256" ->
         create_aes_ctr_hmac_aead_key_template(32, 16, 32, 32, SHA256)
    [] n = "XCHACHA20_POLY1305" ->
         Return([KeyTemplate EXCEPT !.type_url = _XCHACHA20_POLY1305_KEY_TYPE_URL,
                                    !.output_prefix_type = TINK])

(* variant of CatalogInit: XCHACHA20_POLY1305 is built by the AES-GCM *)
(* constructor with no key size                                        *)
CatalogInit_xchacha_as_gcm(n) ==
  CASE n = "AES128_EAX" -> create_aes_eax_key_template(16, 16)
    [] n = "AES256_EAX" -> create_aes_eax_key_template(32, 16)
    [] n = "AES128_GCM" -> create_aes_gcm_key_template(16)
    [] n = "AES256_GCM" -> create_aes_gcm_key_template(32)
    [] n = "AES128_GCM_SIV" -> create_aes_gcm_siv_key_template(16)
    [] n = "AES256_GCM_SIV" -> create_aes_gcm_siv_key_template(32)
    [] n = "AES128_CTR_HMAC_SHA256" ->
         create_aes_ctr_hmac_aead_key_template(16, 16, 32, 16, SHA256)
    [] n = "AES256_CTR_HMAC_SHA256" ->
         create_aes_ctr_hmac_aead_key_template(32, 16, 32, 32, SHA256)
    [] n = "XCHACHA20_POLY1305" -> create_aes_gcm_key_template(0)

(* the right-hand side of the module-level statement that binds name n *)
CatalogInit(n) ==
  CASE n = "AES128_EAX" -> create_aes_eax_key_template(16, 16)
    [] n = "AES256_EAX" -> create_aes_eax_key_template(32, 16)
    [] n = "AES128_GCM" -> create_aes_gcm_key_template(16)
    [] n = "AES256_GCM" -> create_aes_gcm_key_template(32)
    [] n = "AES128_GCM_SIV" -> create_aes_gcm_siv_key_template(16)
    [] n = "AES256_GCM_SIV" -> create_aes_gcm_siv_key_template(32)
    [] n = "AES128_CTR_HMAC_SHA256" ->
         create_aes_ctr_hmac_aead_key_template(16, 16, 32, 16, SHA256)
    [] n = "AES256_CTR_HMAC_SHA256" ->
         create_aes_ctr_hmac_aead_key_template(32, 16, 32, 32, SHA256)
    [] n = "XCHACHA20_POLY1305" ->
         Return([KeyTemplate EXCEPT !.type_url = _XCHACHA20_POLY1305_KEY_TYPE_URL,
                                    !.output_prefix_type = TINK])

(* variant of BoundName: the last statement binds the preceding name again *)
BoundName_repeated(i) ==
  IF i = Len(CatalogNames) THEN CatalogNames[i - 1] ELSE CatalogNames[i]

(* the name bound by the i-th module-level statement *)
BoundName(i) == CatalogNames[i]

ModuleInitialized == pc = Len(CatalogNames)

FreshId == Len(CatalogNames) + 1

NoCall ==
  [fn |-> "", args |-> <<>>, raised |-> "", returned |-> FALSE,
   template |-> KeyTemplate]

NoRead == [name |-> "", bound |-> {}, entry |-> KeyTemplate]

(* ------------------------------- actions ------------------------------- *)
Init ==
  /\ pc = 0
  /\ names = [n \in Names |-> 0]
  /\ heap = <<>>
  /\ cpc = "idle"
  /\ ref = 0
  /\ observed = NoRead
  /\ produced = NoCall
  /\ remembered = NoCall
  /\ between = FALSE
  /\ nmod = 0

(* one module-level statement: construct the template, then bind the name *)
ModuleInitStep ==
  /\ pc < Len(CatalogNames)
  /\ LET out == CatalogInit(CatalogNames[pc + 1])
     IN  /\ out.returned
         /\ heap' = ((pc + 1) :> out.template) @@ heap
         /\ names' = [names EXCEPT ![BoundName(pc + 1)] = pc + 1]
  /\ pc' = pc + 1
  /\ UNCHANGED <<cpc, ref, observed, produced, remembered, between, nmod>>

(* a caller thread starts importing the module, at any time *)
StartImport ==
  /\ cpc = "idle"
  /\ cpc' = "importing"
  /\ UNCHANGED <<pc, names, heap, ref, observed, produced, remembered, between, nmod>>

(* the import returns once the module body has run to its end *)
FinishImport ==
  /\ cpc = "importing"
  /\ ModuleInitialized
  /\ cpc' = "ready"
  /\ UNCHANGED <<pc, names, heap, ref, observed, produced, remembered, between, nmod>>

(* the heap without the object only the caller's variable referred to *)
Collected == [o \in DOMAIN heap \ {FreshId} |-> heap[o]]

(* t = create_...(args) in a caller that holds at most the template of its *)
(* latest operation: on return t is a fresh object, on an exception t is   *)
(* not assigned                                                            *)
Invoke(fn, args, out) ==
  /\ produced' = [fn |-> fn, args |-> args, raised |-> out.raised,
                  returned |-> out.returned, template |-> out.template]
  /\ IF out.returned
       THEN /\ heap' = (FreshId :> out.template) @@ heap
            /\ ref' = FreshId
       ELSE /\ heap' = Collected
            /\ ref' = 0
  /\ between' = (between \/ (remembered.fn # ""
                               /\ <<fn, args>> # <<remembered.fn, remembered.args>>))
  /\ UNCHANGED <<pc, names, cpc, observed, remembered, nmod>>

CallEax(S) ==
  \E key_size \in S, iv_size \in S :
    /\ cpc = "ready"
    /\ Invoke("create_aes_eax_key_template", <<key_size, iv_size>>,
              create_aes_eax_key_template(key_size, iv_size))

CallGcm(S) ==
  \E key_size \in S :
    /\ cpc = "ready"
    /\ Invoke("create_aes_gcm_key_template", <<key_size>>,
              create_aes_gcm_key_template(key_size))

CallGcmSiv(S) ==
  \E key_size \in S :
    /\ cpc = "ready"
    /\ Invoke("create_aes_gcm_siv_key_template", <<key_size>>,
              create_aes_gcm_siv_key_template(key_size))

CallCtrHmac(S, H) ==
  \E aes_key_size \in S, iv_size \in S, hmac_key_size \in S, tag_size \in S,
     hash_type \in H :
    /\ cpc = "ready"
    /\ Invoke("create_aes_ctr_hmac_aead_key_template",
              <<aes_key_size, iv_size, hmac_key_size, tag_size, hash_type>>,
              create_aes_ctr_hmac_aead_key_template(
                aes_key_size, iv_size, hmac_key_size, tag_size, hash_type))

(* t = aead_key_templates.<name>: the caller gets the catalog object itself *)
ReadConstant ==
  \E n \in Names :
    /\ cpc = "ready"
    /\ names[n] # 0
    /\ ref' = names[n]
    /\ heap' = Collected
    /\ observed' = [name |-> n, bound |-> {m \in Names : names[m] # 0},
                    entry |-> heap[names[n]]]
    /\ UNCHANGED <<pc, names, cpc, produced, remembered, between, nmod>>

Next ==
  \/ ModuleInitStep
  \/ StartImport
  \/ FinishImport
  \/ CallEax(Sizes)
  \/ CallGcm(Sizes)
  \/ CallGcmSiv(Sizes)
  \/ CallCtrHmac(Sizes, HashArgs)
  \/ ReadConstant

Spec == Init /\ [][Next]_vars

(* a caller keeps the outcome of its latest call for a later comparison *)
Remember ==
  /\ cpc = "ready"
  /\ produced.fn # ""
  /\ remembered' = produced
  /\ between' = FALSE
  /\ UNCHANGED <<pc, names, heap, cpc, ref, observed, produced, nmod>>

NextPair ==
  \/ ModuleInitStep
  \/ StartImport
  \/ FinishImport
  \/ CallEax(Sizes)
  \/ CallGcm(Sizes)
  \/ CallGcmSiv(Sizes)
  \/ CallCtrHmac(Sizes, PairHashes)
  \/ Remember

SpecPair == Init /\ [][NextPair]_vars

(* t.<field> = v on the template the caller holds *)
Modify ==
  /\ cpc = "ready"
  /\ ref # 0
  /\ nmod < MaxMods
  /\ \/ heap' = [heap EXCEPT ![ref].value = <<>>]
     \/ heap' = [heap EXCEPT ![ref].type_url = _AES_GCM_KEY_TYPE_URL]
     \/ heap' = [heap EXCEPT ![ref].output_prefix_type = "RAW"]
  /\ nmod' = nmod + 1
  /\ UNCHANGED <<pc, names, cpc, ref, observed, produced, remembered, between>>

NextClient ==
  \/ ModuleInitStep
  \/ StartImport
  \/ FinishImport
  \/ CallEax(ClientSizes)
  \/ CallGcm(ClientSizes)
  \/ CallGcmSiv(ClientSizes)
  \/ CallCtrHmac(ClientSizes, {SHA256})
  \/ ReadConstant
  \/ Modify

SpecClient == Init /\ [][NextClient]_vars

(* ----------------------- vocabulary of the claims ---------------------- *)
(* the five type identifiers, as the specification lists them *)
SpecTypeUrls ==
  {"type.googleapis.com/google.crypto.tink.AesEaxKey",
   "type.googleapis.com/google.crypto.tink.AesGcmKey",
   "type.googleapis.com/google.crypto.tink.AesGcmSivKey",
   "type.googleapis.com/google.crypto.tink.AesCtrHmacAeadKey",
   "type.googleapis.com/google.crypto.tink.XChaCha20Poly1305Key"}

Assemble(type_identifier, serialized_parameters, tagging_mode) ==
  [type_url |-> type_identifier, value |-> serialized_parameters,
   output_prefix_type |-> tagging_mode]

VariantOfFn(fn) ==
  CASE fn = "create_aes_eax_key_template" -> "EAX"
    [] fn = "create_aes_gcm_key_template" -> "GCM"
    [] fn = "create_aes_gcm_siv_key_template" -> "GCM-SIV"
    [] fn = "create_aes_ctr_hmac_aead_key_template" -> "CTR-HMAC"

VariantOfName(n) ==
  CASE n \in {"AES128_EAX", "AES256_EAX"} -> "EAX"
    [] n \in {"AES128_GCM", "AES256_GCM"} -> "GCM"
    [] n \in {"AES128_GCM_SIV", "AES256_GCM_SIV"} -> "GCM-SIV"
    [] n \in {"AES128_CTR_HMAC_SHA256", "AES256_CTR_HMAC_SHA256"} -> "CTR-HMAC"
    [] n = "XCHACHA20_POLY1305" -> "XChaCha20-Poly1305"

IdentifierOf(variant) ==
  CASE variant = "EAX" -> "type.googleapis.com/google.crypto.tink.AesEaxKey"
    [] variant = "GCM" -> "type.googleapis.com/google.crypto.tink.AesGcmKey"
    [] variant = "GCM-SIV" -> "type.googleapis.com/google.crypto.tink.AesGcmSivKey"
    [] variant = "CTR-HMAC" ->
         "type.googleapis.com/google.crypto.tink.AesCtrHmacAeadKey"
    [] variant = "XChaCha20-Poly1305" ->
         "type.googleapis.com/google.crypto.tink.XChaCha20Poly1305Key"

(* the parameter record a blob holds when read with the variant's schema *)
ParseAs(variant, b) ==
  CASE variant = "EAX" -> AesEaxKeyFormat_Parse(b)
    [] variant = "GCM" -> AesGcmKeyFormat_Parse(b)
    [] variant = "GCM-SIV" -> AesGcmSivKeyFormat_Parse(b)
    [] variant = "CTR-HMAC" -> AesCtrHmacAeadKeyFormat_Parse(b)
    [] variant = "XChaCha20-Poly1305" -> <<>>

EncodeAs(variant, a) ==
  CASE variant = "EAX" ->
         AesEaxKeyFormat_SerializeToString(
           [params |-> [iv_size |-> a[2]], key_size |-> a[1]])
    [] variant = "GCM" -> AesGcmKeyFormat_SerializeToString([key_size |-> a[1]])
    [] variant = "GCM-SIV" ->
         AesGcmSivKeyFormat_SerializeToString([key_size |-> a[1]])
    [] variant = "CTR-HMAC" ->
         AesCtrHmacAeadKeyFormat_SerializeToString(
           [aes_ctr_key_format |-> [params |-> [iv_size |-> a[2]], key_size |-> a[1]],
            hmac_key_format |-> [params |-> [hash |-> a[5], tag_size |-> a[4]],
                                 key_size |-> a[3]]])
    [] variant = "XChaCha20-Poly1305" -> <<>>

IsCtrHmac(call) == call.fn = "create_aes_ctr_hmac_aead_key_template"

(* the call was made with arguments the constructor accepts *)
Accepted(call) ==
  /\ call.fn # ""
  /\ IsCtrHmac(call) => call.args[5] \in HashType

FullyConstructed(t) ==
  /\ t.type_url # ""
  /\ t.output_prefix_type # "UNKNOWN_PREFIX"
  /\ t.value # <<>> \/ t.type_url = "type.googleapis.com/google.crypto.tink.XChaCha20Poly1305Key"

(* -------------------------------- claims ------------------------------- *)

(* C1: every template the module produces, catalog constant or value     *)
(* returned by a constructor, carries one of the five type identifiers   *)
(* of the specification and output_prefix_type TINK.                     *)
C1_TypeUrlAndTink ==
  /\ \A o \in DOMAIN heap :
       /\ heap[o].type_url \in SpecTypeUrls
       /\ heap[o].output_prefix_type = "TINK"
  /\ produced.returned =>
       /\ produced.template.type_url \in SpecTypeUrls
       /\ produced.template.output_prefix_type = "TINK"

C1_Witness ==
  /\ ModuleInitialized
  /\ produced.returned
  /\ IsCtrHmac(produced)
  /\ ref = FreshId
  /\ heap[ref] = produced.template

(* C2: AES128_EAX, AES256_GCM and AES128_CTR_HMAC_SHA256 equal the        *)
(* template assembled from the encoding of the parameters the name       *)
(* documents, the matching identifier and TINK.                          *)
C2_CatalogEqualsAssembled ==
  ModuleInitialized =>
    /\ heap[names["AES128_EAX"]] =
         Assemble("type.googleapis.com/google.crypto.tink.AesEaxKey",
                  EncodeAs("EAX", <<16, 16>>), "TINK")
    /\ heap[names["AES256_GCM"]] =
         Assemble("type.googleapis.com/google.crypto.tink.AesGcmKey",
                  EncodeAs("GCM", <<32>>), "TINK")
    /\ heap[names["AES128_CTR_HMAC_SHA256"]] =
         Assemble("type.googleapis.com/google.crypto.tink.AesCtrHmacAeadKey",
                  EncodeAs("CTR-HMAC", <<16, 16, 32, 16, SHA256>>), "TINK")

C2_Witness ==
  /\ ModuleInitialized
  /\ observed.name = "AES256_GCM"
  /\ observed.entry.value = <<16, 32>>

(* C3: XCHACHA20_POLY1305 has an empty value and the XChaCha20Poly1305Key *)
(* identifier, and no other catalog entry has an empty value.            *)
C3_XChaChaEmptyValue ==
  ModuleInitialized =>
    /\ heap[names["XCHACHA20_POLY1305"]].value = <<>>
    /\ heap[names["XCHACHA20_POLY1305"]].type_url =
         "type.googleapis.com/google.crypto.tink.XChaCha20Poly1305Key"
    /\ \A n \in Names \ {"XCHACHA20_POLY1305"} : heap[names[n]].value # <<>>

C3_Witness ==
  /\ ModuleInitialized
  /\ observed.name = "XCHACHA20_POLY1305"
  /\ observed.entry.value = <<>>

(* C4: in every template a constructor returns and in every catalog       *)
(* entry, the type_url is the identifier of the variant whose parameter  *)
(* record was serialized into value.                                     *)
C4_VariantPairing ==
  /\ produced.returned =>
       LET v == VariantOfFn(produced.fn)
       IN  /\ produced.template.type_url = IdentifierOf(v)
           /\ ParseAs(v, produced.template.value) = produced.args
  /\ \A n \in Names : names[n] # 0 =>
       LET v == VariantOfName(n)
           t == heap[names[n]]
       IN  /\ t.type_url = IdentifierOf(v)
           /\ EncodeAs(v, ParseAs(v, t.value)) = t.value

C4_Witness ==
  /\ ModuleInitialized
  /\ produced.returned
  /\ produced.fn = "create_aes_gcm_siv_key_template"
  /\ produced.args = <<300>>

C7_Injective ==
  (/\ remembered.returned
   /\ produced.returned
   /\ remembered.fn = produced.fn
   /\ remembered.args # produced.args)
    => remembered.template.value # produced.template.value

C7_Witness ==
  /\ IsCtrHmac(remembered)
  /\ IsCtrHmac(produced)
  /\ remembered.args = <<0, 300, 0, 300, SHA256>>
  /\ produced.args = <<0, 300, 0, 300, SHA512>>
  /\ remembered.returned /\ produced.returned

C9_CatalogReadOnly ==
  ModuleInitialized =>
    \A n \in Names : heap[names[n]] = CatalogInit(n).template

====
